---- MODULE Spec2Model ----
(***************************************************************************)
(* A model of 5th_edition_spellbook_app_utils/data_parser.py: the three    *)
(* operations validate_data, patch_missing_fields and clean_classes on an  *)
(* in-memory JSON document, and the command-line program around them.      *)
(*                                                                         *)
(* JSON values are tagged records, one field per Python type:              *)
(*   [int |-> n]  [str |-> <<chars>>]  [bool |-> b]  [null |-> TRUE]       *)
(*   [list |-> <<values>>]  [dict |-> function from key to value]          *)
(* A Python str is the sequence of its characters, so that split, strip,   *)
(* lower, startswith, join and the substring test act on characters.       *)
(* Dictionary keys are TLA+ strings; KeyChars gives a key's characters     *)
(* where Python compares a key with a str value.                           *)
(* Python indices are 0-based: data[2] is the third element, data[3] here. *)
(***************************************************************************)
EXTENDS Integers, Sequences, FiniteSets, TLC

VARIABLES
    data,                   \* the document in memory (json.loads of the input)
    valid_classes,          \* --valid_classes: a sequence of str, or None
    correct_partial_names,  \* --correct_partial_classnames
    error,                  \* the exception that ended the last call, or "none"
    message,                \* what an InvalidDataError names
    before,                 \* the document as it was when the last call began
    calls,                  \* the operations called so far, oldest first
    pc,                     \* the position of the command-line program
    args,                   \* the other command-line arguments and the input file
    writes                  \* how often the output file was opened for writing

vars == <<data, valid_classes, correct_partial_names, error, message, before,
          calls, pc, args, writes>>

(***************************************************************************)
(* Bounds of the model.                                                    *)
(***************************************************************************)
MaxStrLen == 4      \* longest classes string drawn as input
MaxValid == 2       \* longest valid_classes list drawn as input
MaxRecords == 2     \* most records in a drawn record collection
MaxCalls == 2       \* most calls made on one document

(***************************************************************************)
(* Python str operations, on sequences of characters.                      *)
(***************************************************************************)
Whitespace == {" "}

\* str.lower() of one character of the input alphabet
LowerChar(c) ==
    CASE c = "A" -> "a"
      [] OTHER -> c

\* n.lower()
Lower(s) == [i \in 1..Len(s) |-> LowerChar(s[i])]

RECURSIVE LStrip(_)
LStrip(s) ==
    IF s # <<>> /\ Head(s) \in Whitespace THEN LStrip(Tail(s)) ELSE s

RECURSIVE RStrip(_)
RStrip(s) ==
    IF s # <<>> /\ s[Len(s)] \in Whitespace
    THEN RStrip(SubSeq(s, 1, Len(s) - 1))
    ELSE s

\* n.strip(): the whitespace at both ends removed
Strip(s) == RStrip(LStrip(s))

\* classes.split(','): the parts between the commas, "" giving one empty part
RECURSIVE Split(_)
Split(s) ==
    IF \E i \in 1..Len(s) : s[i] = ","
    THEN LET i == CHOOSE k \in 1..Len(s) :
                      s[k] = "," /\ \A j \in 1..(k - 1) : s[j] # ","
         IN  <<SubSeq(s, 1, i - 1)>> \o Split(SubSeq(s, i + 1, Len(s)))
    ELSE <<s>>

\* c.startswith(vc)
StartsWith(c, vc) ==
    Len(vc) <= Len(c) /\ SubSeq(c, 1, Len(vc)) = vc

\* lst.index(x): the 0-based position of the first element equal to x
Index(lst, x) ==
    (CHOOSE i \in 1..Len(lst) :
         lst[i] = x /\ \A j \in 1..(i - 1) : lst[j] # x) - 1

\* set(lst)
ToSet(lst) == {lst[i] : i \in 1..Len(lst)}

(***************************************************************************)
(* The helpers local to clean_classes.                                     *)
(***************************************************************************)
\* _to_list without the strip: the parts as split leaves them
_to_list_unstripped(classes) == Split(classes)

\* _to_list
_to_list(classes) ==
    LET parts == Split(classes)
    IN  [i \in 1..Len(parts) |-> Strip(parts[i])]

\* _to_str: ', '.join(classes)
RECURSIVE _to_str(_)
_to_str(classes) ==
    IF classes = <<>> THEN <<>>
    ELSE IF Len(classes) = 1 THEN classes[1]
    ELSE classes[1] \o <<",", " ">> \o _to_str(Tail(classes))

\* _lowercase_list
_lowercase_list(lst) == [i \in 1..Len(lst) |-> Lower(lst[i])]

(***************************************************************************)
(* clean_classes, one record.                                              *)
(***************************************************************************)
\* The inner loop with the prefix test turned round (vc.startswith(c)): an
\* entry that is a prefix of a valid name is replaced by that name
RECURSIVE CorrectEntryReversed(_, _, _, _)
CorrectEntryReversed(c, unique_classes, valid_classes_lowercase, i) ==
    IF i > Len(valid_classes_lowercase)
    THEN [raised |-> FALSE, set |-> unique_classes]
    ELSE IF StartsWith(valid_classes_lowercase[i], c)
    THEN IF c \notin unique_classes
         THEN [raised |-> TRUE, set |-> {}]
         ELSE CorrectEntryReversed(c,
                  (unique_classes \ {c}) \cup {valid_classes_lowercase[i]},
                  valid_classes_lowercase, i + 1)
    ELSE CorrectEntryReversed(c, unique_classes, valid_classes_lowercase, i + 1)

\* The inner loop "for vc in valid_classes_lowercase" for one invalid entry c,
\* from position i on. There is no break: every vc that c starts with removes c
\* again, and set.remove raises KeyError when c is no longer in the set.
RECURSIVE CorrectEntry(_, _, _, _)
CorrectEntry(c, unique_classes, valid_classes_lowercase, i) ==
    IF i > Len(valid_classes_lowercase)
    THEN [raised |-> FALSE, set |-> unique_classes]
    ELSE IF StartsWith(c, valid_classes_lowercase[i])
    THEN IF c \notin unique_classes
         THEN [raised |-> TRUE, set |-> {}]
         ELSE CorrectEntry(c,
                  (unique_classes \ {c}) \cup {valid_classes_lowercase[i]},
                  valid_classes_lowercase, i + 1)
    ELSE CorrectEntry(c, unique_classes, valid_classes_lowercase, i + 1)

\* The outer loop "for c in invalid_classes", taking the entries in the order
\* given; invalid_classes is a set of its own, so removing from unique_classes
\* does not disturb the iteration.
RECURSIVE CorrectPartial(_, _, _)
CorrectPartial(order, unique_classes, valid_classes_lowercase) ==
    IF order = <<>>
    THEN [raised |-> FALSE, set |-> unique_classes]
    ELSE LET r == CorrectEntry(Head(order), unique_classes,
                               valid_classes_lowercase, 1)
         IN  IF r.raised THEN r
             ELSE CorrectPartial(Tail(order), r.set, valid_classes_lowercase)

\* The orders in which Python may iterate over a set
IterationOrders(S) ==
    {f \in [1..Cardinality(S) -> S] :
         \A i, j \in 1..Cardinality(S) : f[i] = f[j] => i = j}

\* The sort with the key negated: descending position in valid_classes
SortedByIndexReversed(unique_classes, valid_classes_lowercase) ==
    [i \in 1..Cardinality(unique_classes) |->
        CHOOSE x \in unique_classes :
            Cardinality({y \in unique_classes :
                Index(valid_classes_lowercase, y)
                    > Index(valid_classes_lowercase, x)}) = i - 1]

\* sorted(unique_classes, key=lambda k: valid_classes_lowercase.index(k))
SortedByIndex(unique_classes, valid_classes_lowercase) ==
    [i \in 1..Cardinality(unique_classes) |->
        CHOOSE x \in unique_classes :
            Cardinality({y \in unique_classes :
                Index(valid_classes_lowercase, y)
                    < Index(valid_classes_lowercase, x)}) = i - 1]

\* The recasing left out: the lower-cased names are written back
RecaseLower(classes, vc, valid_classes_lowercase) == classes

\* [valid_classes[valid_classes_lowercase.index(n)] for n in classes]
Recase(classes, vc, valid_classes_lowercase) ==
    [i \in 1..Len(classes) |->
        vc[Index(valid_classes_lowercase, classes[i]) + 1]]

\* The body of "if classes:" for one classes string, lines 107-137: the set of
\* results over the orders in which the set of invalid entries may be iterated.
\* Each is [error, classes], classes being the new value of item['classes'].
CleanString(classes, vc, correct) ==
    LET valid_classes_lowercase == _lowercase_list(vc)
        class_list == _lowercase_list(_to_list(classes))
        unique_classes == ToSet(class_list)
        invalid_classes == unique_classes \ ToSet(valid_classes_lowercase)
        corrected ==
            IF invalid_classes # {} /\ correct
            THEN {CorrectPartial(o, unique_classes, valid_classes_lowercase) :
                      o \in IterationOrders(invalid_classes)}
            ELSE {[raised |-> FALSE, set |-> unique_classes]}
        Finish(unique) ==
            LET kept == unique \ (unique \ ToSet(valid_classes_lowercase))
                sorted == SortedByIndex(kept, valid_classes_lowercase)
            IN  _to_str(Recase(sorted, vc, valid_classes_lowercase))
    IN  {IF r.raised
         THEN [error |-> "KeyError", classes |-> classes]
         ELSE [error |-> "none", classes |-> Finish(r.set)] : r \in corrected}

(***************************************************************************)
(* JSON values as Python sees them.                                        *)
(***************************************************************************)
IsDict(v) == "dict" \in DOMAIN v
IsList(v) == "list" \in DOMAIN v
IsStr(v) == "str" \in DOMAIN v
IsInt(v) == "int" \in DOMAIN v
IsBool(v) == "bool" \in DOMAIN v
IsNull(v) == "null" \in DOMAIN v

PyStr(s) == [str |-> s]
PyInt(n) == [int |-> n]
PyBool(b) == [bool |-> b]
None == [null |-> TRUE]

\* "if v:" for a JSON value
Truthy(v) ==
    CASE IsStr(v) -> v.str # <<>>
      [] IsInt(v) -> v.int # 0
      [] IsBool(v) -> v.bool
      [] IsNull(v) -> FALSE
      [] IsList(v) -> v.list # <<>>
      [] IsDict(v) -> DOMAIN v.dict # {}

\* The characters of the dictionary keys the program compares with str values
KeyChars ==
    [k \in {"data", "id", "name", "school", "level", "casting_time", "range",
            "components", "duration", "description", "description_high",
            "book", "note", "classes", "concentration", "ritual", "sound",
            "is_edit"} |->
        CASE k = "data" -> <<"d", "a", "t", "a">>
          [] k = "id" -> <<"i", "d">>
          [] k = "name" -> <<"n", "a", "m", "e">>
          [] k = "school" -> <<"s", "c", "h", "o", "o", "l">>
          [] k = "level" -> <<"l", "e", "v", "e", "l">>
          [] k = "casting_time" -> <<"c", "a", "s", "t", "i", "n", "g", "_", "t", "i", "m", "e">>
          [] k = "range" -> <<"r", "a", "n", "g", "e">>
          [] k = "components" -> <<"c", "o", "m", "p", "o", "n", "e", "n", "t", "s">>
          [] k = "duration" -> <<"d", "u", "r", "a", "t", "i", "o", "n">>
          [] k = "description" -> <<"d", "e", "s", "c", "r", "i", "p", "t", "i", "o", "n">>
          [] k = "description_high" -> <<"d", "e", "s", "c", "r", "i", "p", "t", "i", "o", "n", "_", "h", "i", "g", "h">>
          [] k = "book" -> <<"b", "o", "o", "k">>
          [] k = "note" -> <<"n", "o", "t", "e">>
          [] k = "classes" -> <<"c", "l", "a", "s", "s", "e", "s">>
          [] k = "concentration" -> <<"c", "o", "n", "c", "e", "n", "t", "r", "a", "t", "i", "o", "n">>
          [] k = "ritual" -> <<"r", "i", "t", "u", "a", "l">>
          [] k = "sound" -> <<"s", "o", "u", "n", "d">>
          [] k = "is_edit" -> <<"i", "s", "_", "e", "d", "i", "t">>]

\* needle in haystack, both str
IsSubstring(needle, haystack) ==
    \E i \in 0..(Len(haystack) - Len(needle)) :
        SubSeq(haystack, i + 1, i + Len(needle)) = needle

\* "key in v" for a str key: [error, value]. A dict is asked for the key, a list
\* for an equal element, a str for a substring; int, bool and None are not
\* iterable and raise TypeError.
PyIn(key, v) ==
    CASE IsDict(v) -> [error |-> "none", value |-> key \in DOMAIN v.dict]
      [] IsList(v) -> [error |-> "none",
                       value |-> \E i \in 1..Len(v.list) :
                                     v.list[i] = PyStr(KeyChars[key])]
      [] IsStr(v) -> [error |-> "none",
                      value |-> IsSubstring(KeyChars[key], v.str)]
      [] OTHER -> [error |-> "TypeError", value |-> FALSE]

\* v[key] for a str key: [error, value]. Only a dict takes a str subscript.
PyGetItem(v, key) ==
    CASE IsDict(v) -> IF key \in DOMAIN v.dict
                      THEN [error |-> "none", value |-> v.dict[key]]
                      ELSE [error |-> "KeyError", value |-> None]
      [] OTHER -> [error |-> "TypeError", value |-> None]

\* "for item in v": [error, items]. A list gives its elements and a str its
\* characters; int, bool and None raise TypeError. (The documents drawn keep
\* the record collection a list, a str or a number.)
PyIter(v) ==
    CASE IsList(v) -> [error |-> "none", items |-> v.list]
      [] IsStr(v) -> [error |-> "none",
                      items |-> [i \in 1..Len(v.str) |-> PyStr(<<v.str[i]>>)]]
      [] IsInt(v) \/ IsBool(v) \/ IsNull(v) ->
             [error |-> "TypeError", items |-> <<>>]

\* internal_data = data[2]['data'], as patch_missing_fields and clean_classes
\* read it, unchecked: [error, value]
InternalData(d) ==
    IF Len(d) < 3 THEN [error |-> "IndexError", value |-> None]
    ELSE PyGetItem(d[3], "data")

\* The document with the list data[2]['data'] mutated in place to hold items
WithItems(d, items) ==
    [d EXCEPT ![3] = [dict |-> [@.dict EXCEPT !["data"] = [list |-> items]]]]

(***************************************************************************)
(* _default_data: the canonical fields and their defaults.                 *)
(***************************************************************************)
_default_data ==
    [id |-> PyInt(-1),
     name |-> PyStr(<<"a", "o", "e", "u">>),
     school |-> PyStr(<<"A", "b", "j", "u", "r", "a", "t", "i", "o", "n", " ", "C", "a", "n", "t", "r", "i", "p">>),
     level |-> PyInt(-1),
     casting_time |-> PyStr(<<"1", " ", "A", "c", "t", "i", "o", "n">>),
     range |-> PyStr(<<"N", "o", "n", "e">>),
     components |-> PyStr(<<>>),
     duration |-> PyStr(<<"1", " ", "R", "o", "u", "n", "d">>),
     description |-> PyStr(<<"<", "p", ">", "a", "e", "u", "<", "b", "r", ">", "<", "/", "p", ">">>),
     description_high |-> PyStr(<<>>),
     book |-> PyStr(<<>>),
     note |-> PyStr(<<>>),
     classes |-> PyStr(<<>>),
     concentration |-> PyStr(<<"f", "a", "l", "s", "e">>),
     ritual |-> PyStr(<<"f", "a", "l", "s", "e">>),
     sound |-> PyStr(<<>>),
     is_edit |-> PyBool(FALSE)]

\* _default_data.keys(), in the dictionary's insertion order
keys ==
    <<"id", "name", "school", "level", "casting_time", "range", "components", "duration", "description", "description_high", "book", "note", "classes", "concentration", "ritual", "sound", "is_edit">>

(***************************************************************************)
(* validate_data(data): [error, message]. It assigns nothing.              *)
(***************************************************************************)
\* The message of the InvalidDataError raised: its text, and the key and item
\* that "{} missing from {}" is formatted with
NoMessage == [text |-> "none", key |-> "", item |-> None]

\* "for key in keys" for one item, from position k on
RECURSIVE ValidateItem(_, _)
ValidateItem(item, k) ==
    IF k > Len(keys) THEN [error |-> "none", message |-> NoMessage]
    ELSE LET in == PyIn(keys[k], item)
         IN  IF in.error # "none"
             THEN [error |-> in.error, message |-> NoMessage]
             ELSE IF ~in.value
             THEN [error |-> "InvalidDataError",
                   message |-> [text |-> "{} missing from {}", key |-> keys[k],
                                item |-> item]]
             ELSE ValidateItem(item, k + 1)

\* "for item in internal_data", from position i on
RECURSIVE ValidateItems(_, _)
ValidateItems(items, i) ==
    IF i > Len(items) THEN [error |-> "none", message |-> NoMessage]
    ELSE LET r == ValidateItem(items[i], 1)
         IN  IF r.error # "none" THEN r ELSE ValidateItems(items, i + 1)

validate_data(d) ==
    IF Len(d) < 3
    THEN [error |-> "InvalidDataError",
          message |-> [text |-> "Expected data to contain at least three entries",
                       key |-> "",
                       item |-> None]]
    ELSE LET in == PyIn("data", d[3])
         IN  IF in.error # "none"
             THEN [error |-> in.error, message |-> NoMessage]
             ELSE IF ~in.value
             THEN [error |-> "InvalidDataError",
                   message |-> [text |-> "Expected dictionary with \"data\" key at index 2 in input data",
                                key |-> "",
                                item |-> None]]
             ELSE LET internal_data == PyGetItem(d[3], "data")
                  IN  IF internal_data.error # "none"
                      THEN [error |-> internal_data.error,
                            message |-> NoMessage]
                      ELSE LET it == PyIter(internal_data.value)
                           IN  IF it.error # "none"
                               THEN [error |-> it.error, message |-> NoMessage]
                               ELSE ValidateItems(it.items, 1)

(***************************************************************************)
(* patch_missing_fields(data): [error, data], data as the call leaves it.  *)
(***************************************************************************)
\* The overlay the wrong way round, dict(item, **_default_data): defaults win
OverlayDefaultsWin(item) ==
    [k \in DOMAIN _default_data \cup DOMAIN item.dict |->
        IF k \in DOMAIN _default_data THEN _default_data[k] ELSE item.dict[k]]

\* dict(_default_data, **item): the defaults, overlaid with the item's pairs
Overlay(item) ==
    [k \in DOMAIN _default_data \cup DOMAIN item.dict |->
        IF k \in DOMAIN item.dict THEN item.dict[k] ELSE _default_data[k]]

\* "for i, item in enumerate(internal_data)", from position i on; items holds
\* the assignments internal_data[i] = ... made so far. ** of a value that is
\* no mapping raises TypeError before the assignment.
RECURSIVE PatchItems(_, _)
PatchItems(items, i) ==
    IF i > Len(items) THEN [error |-> "none", items |-> items]
    ELSE IF ~IsDict(items[i]) THEN [error |-> "TypeError", items |-> items]
    ELSE PatchItems([items EXCEPT ![i] = [dict |-> Overlay(items[i])]], i + 1)

patch_missing_fields(d) ==
    LET internal_data == InternalData(d)
    IN  IF internal_data.error # "none"
        THEN [error |-> internal_data.error, data |-> d]
        ELSE LET it == PyIter(internal_data.value)
             IN  IF it.error # "none" THEN [error |-> it.error, data |-> d]
                 ELSE IF ~IsList(internal_data.value)
                 THEN \* a str: its first character is no mapping
                      [error |-> IF it.items = <<>> THEN "none" ELSE "TypeError",
                       data |-> d]
                 ELSE LET r == PatchItems(it.items, 1)
                      IN  [error |-> r.error, data |-> WithItems(d, r.items)]

(***************************************************************************)
(* clean_classes(data, valid_classes, correct_partial_names): the set of   *)
(* [error, data] the call can end with.                                    *)
(***************************************************************************)
\* The loop body for one item: the set of [error, item]. item.get is an
\* attribute of dict alone, and classes.split one of str alone.
CleanItem(item, vc, correct) ==
    IF ~IsDict(item) THEN {[error |-> "AttributeError", item |-> item]}
    ELSE LET classes == IF "classes" \in DOMAIN item.dict
                        THEN item.dict["classes"] ELSE None
         IN  IF ~Truthy(classes) THEN {[error |-> "none", item |-> item]}
             ELSE IF ~IsStr(classes)
             THEN {[error |-> "AttributeError", item |-> item]}
             ELSE {[error |-> r.error,
                    item |-> IF r.error = "none"
                             THEN [dict |-> [item.dict EXCEPT
                                       !["classes"] = PyStr(r.classes)]]
                             ELSE item] :
                       r \in CleanString(classes.str, vc, correct)}

\* "for item in internal_data", from position i on: the set of [error, items],
\* items holding the records as the loop has left them.
RECURSIVE CleanItems(_, _, _, _)
CleanItems(items, i, vc, correct) ==
    IF i > Len(items) THEN {[error |-> "none", items |-> items]}
    ELSE UNION {IF r.error # "none"
                THEN {[error |-> r.error, items |-> items]}
                ELSE CleanItems([items EXCEPT ![i] = r.item], i + 1, vc, correct) :
                    r \in CleanItem(items[i], vc, correct)}

clean_classes(d, vc, correct) ==
    LET internal_data == InternalData(d)
    IN  IF internal_data.error # "none"
        THEN {[error |-> internal_data.error, data |-> d]}
        ELSE LET it == PyIter(internal_data.value)
             IN  IF it.error # "none" THEN {[error |-> it.error, data |-> d]}
                 ELSE IF ~IsList(internal_data.value)
                 THEN \* a str: its first character has no attribute get
                      {[error |-> IF it.items = <<>> THEN "none"
                                  ELSE "AttributeError",
                        data |-> d]}
                 ELSE {[error |-> r.error, data |-> WithItems(d, r.items)] :
                           r \in CleanItems(it.items, 1, vc, correct)}

(***************************************************************************)
(* The inputs drawn.                                                       *)
(***************************************************************************)
\* The characters of the classes strings drawn: a letter in both cases, the
\* blank and the separator
Alphabet == {"a", "A", " ", ","}

\* Every str over Alphabet of at most n characters
StringsUpTo(n) == UNION {[1..k -> Alphabet] : k \in 0..n}

\* The class names valid_classes is drawn from: one name in two casings, a
\* longer name it is a prefix of, and a name ending in a blank
ValidNames ==
    {<<"a">>, <<"A">>, <<"a", "a">>, <<"a", " ">>}

ValidLists == UNION {[1..k -> ValidNames] : k \in 0..MaxValid}

\* A record of the spell list with the fields clean_classes reads
Spell(classes) ==
    [dict |-> [name |-> PyStr(<<"n">>), classes |-> PyStr(classes)]]

\* A record with no classes field
SpellNoClasses == [dict |-> [name |-> PyStr(<<"m">>)]]

\* The document json.loads gives for a spell list: two opaque elements, then
\* the mapping that holds the records under "data" beside a sibling key
Document(items) ==
    <<PyStr(<<"v">>), PyInt(1),
      [dict |-> [data |-> [list |-> items], count |-> PyInt(Len(items))]]>>

\* The classes strings of the two-record collections: a lone name, a
\* duplicate in two casings, a name with two valid prefixes, two names
PairStrings ==
    {<<"a">>, <<"A", ",", "a">>, <<"a", "a", "a">>, <<"a", "a", ",", " ", "a">>}

\* The record collections drawn: one record with any classes string, and two
\* records, with or without classes
CleanCollections ==
    {<<Spell(s)>> : s \in StringsUpTo(MaxStrLen)}
        \cup {<<x, y>> : x, y \in {Spell(s) : s \in PairStrings}
                                   \cup {SpellNoClasses}}

\* The command-line arguments, unused when the operations are called directly
NoArgs == [input_exists |-> TRUE, output_data |-> FALSE, process_type |-> "none",
           valid_classes_given |-> TRUE, file |-> <<>>]

(***************************************************************************)
(* The operations called on a document in memory.                          *)
(***************************************************************************)
CallCleanClasses ==
    /\ pc = "lib" /\ error = "none" /\ Len(calls) < MaxCalls
    /\ \E r \in clean_classes(data, valid_classes, correct_partial_names) :
           /\ data' = r.data
           /\ error' = r.error
    /\ before' = data
    /\ calls' = Append(calls, "clean_classes")
    /\ UNCHANGED <<valid_classes, correct_partial_names, message, pc, args,
                   writes>>

CleanInit ==
    /\ data \in {Document(c) : c \in CleanCollections}
    /\ valid_classes \in ValidLists
    /\ correct_partial_names \in BOOLEAN
    /\ error = "none" /\ message = NoMessage
    /\ before = data /\ calls = <<>>
    /\ pc = "lib" /\ args = NoArgs /\ writes = 0

CleanNext == CallCleanClasses

CleanSpec == CleanInit /\ [][CleanNext]_vars

(***************************************************************************)
(* What the properties of clean_classes speak of.                          *)
(***************************************************************************)
Items(d) == d[3].dict["data"].list

\* Record i had a non-empty classes string when the last call began
HadClasses(i) ==
    /\ "classes" \in DOMAIN Items(before)[i].dict
    /\ Items(before)[i].dict["classes"].str # <<>>

ClassesBefore(i) == Items(before)[i].dict["classes"].str
ClassesAfter(i) == Items(data)[i].dict["classes"].str

Cleaned == pc = "lib" /\ calls # <<>> /\ calls[Len(calls)] = "clean_classes"

\* p with the whitespace at its two ends cut off, by position
Trimmed(p) ==
    LET solid == {k \in 1..Len(p) : p[k] \notin Whitespace}
    IN  IF solid = {} THEN <<>>
        ELSE SubSeq(p, CHOOSE k \in solid : \A m \in solid : k <= m,
                       CHOOSE k \in solid : \A m \in solid : m <= k)

\* The comma-separated parts of s, trimmed and lower-cased: a part lies
\* between two neighbouring commas (or ends of s) and holds no comma
PartNames(s) ==
    {Lower(Trimmed(SubSeq(s, i, j))) :
        <<i, j>> \in {<<i, j>> \in (1..(Len(s) + 1)) \X (0..Len(s)) :
            /\ i <= j + 1
            /\ i = 1 \/ s[i - 1] = ","
            /\ j = Len(s) \/ s[j + 1] = ","
            /\ \A k \in i..j : s[k] # ","}}

\* The entries vc[i], i in sel, in ascending i, joined with ", "
RECURSIVE JoinSelected(_, _, _)
JoinSelected(vc, sel, i) ==
    IF i > Len(vc) THEN <<>>
    ELSE IF i \in sel
    THEN vc[i] \o (IF \E j \in sel : j > i THEN <<",", " ">> ELSE <<>>)
               \o JoinSelected(vc, sel, i + 1)
    ELSE JoinSelected(vc, sel, i + 1)

\* Position i is the first of vc to carry its lower-cased form
FirstOfItsName(vc, i) == \A j \in 1..(i - 1) : Lower(vc[j]) # Lower(vc[i])

\* C1: with correct_partial_names disabled, a record's non-empty classes
\* string becomes the ", "-join of the entries valid_classes[i], in ascending
\* i, whose lower-cased form is that of a trimmed part of the input and which
\* are the first of valid_classes to carry that form.
ExactNamesKept ==
    (Cleaned /\ ~correct_partial_names) =>
        /\ error = "none"
        /\ \A i \in 1..Len(Items(before)) : HadClasses(i) =>
               ClassesAfter(i) =
                   JoinSelected(valid_classes,
                       {k \in 1..Len(valid_classes) :
                           /\ Lower(valid_classes[k]) \in PartNames(ClassesBefore(i))
                           /\ FirstOfItsName(valid_classes, k)}, 1)

\* "aa,a" against ["A", "aa"]: reordered and recased
ExactNamesKeptWitness ==
    /\ Cleaned /\ ~correct_partial_names
    /\ valid_classes = <<<<"A">>, <<"a", "a">>>>
    /\ Len(Items(before)) = 1 /\ HadClasses(1)
    /\ ClassesBefore(1) = <<"a", "a", ",", "a">>
    /\ ClassesAfter(1) = <<"A", ",", " ", "a", "a">>

\* C2: after clean_classes returns, with either flag, the classes field of
\* every processed record is the ", "-join of entries of valid_classes in
\* their casing, none twice, in the order of valid_classes; with valid_classes
\* empty it is the empty string.
OutputFromValidClasses ==
    (Cleaned /\ error = "none") =>
        \A i \in 1..Len(Items(before)) : HadClasses(i) =>
            /\ \E sel \in SUBSET (1..Len(valid_classes)) :
                   /\ ClassesAfter(i) = JoinSelected(valid_classes, sel, 1)
                   /\ \A j, k \in sel :
                          valid_classes[j] = valid_classes[k] => j = k
            /\ valid_classes = <<>> => ClassesAfter(i) = <<>>

\* "aaa" against ["aa", "a "] with correction: "aaa" becomes "aa"
OutputFromValidClassesWitness ==
    /\ Cleaned /\ error = "none" /\ correct_partial_names
    /\ valid_classes = <<<<"a", "a">>, <<"a", " ">>>>
    /\ Len(Items(before)) = 1 /\ HadClasses(1)
    /\ ClassesBefore(1) = <<"a", "a", "a">>
    /\ ClassesAfter(1) = <<"a", "a">>

\* C3: clean_classes never raises because of the content of a classes string:
\* on a well-formed document the call completes.
CleanNeverRaises ==
    Cleaned => error = "none"

\* The classes string of record i is a lone name (no comma) that, trimmed and
\* lower-cased, is not in the lower-cased valid_classes
LoneUnknownName(i) ==
    /\ HadClasses(i)
    /\ \A k \in 1..Len(ClassesBefore(i)) : ClassesBefore(i)[k] # ","
    /\ \A k \in 1..Len(valid_classes) :
           Lower(valid_classes[k]) # Lower(Trimmed(ClassesBefore(i)))

\* The positions of valid_classes whose entry the lone name of record i is a
\* proper prefix of, and those whose entry is a proper prefix of the name
LongerEntries(i) ==
    {k \in 1..Len(valid_classes) :
        /\ StartsWith(Lower(valid_classes[k]), Lower(Trimmed(ClassesBefore(i))))
        /\ Len(valid_classes[k]) > Len(Trimmed(ClassesBefore(i)))}

ShorterEntries(i) ==
    {k \in 1..Len(valid_classes) :
        /\ StartsWith(Lower(Trimmed(ClassesBefore(i))), Lower(valid_classes[k]))
        /\ Len(valid_classes[k]) < Len(Trimmed(ClassesBefore(i)))}

\* C4, as claimed: with correction enabled, a lone unknown name that is a
\* proper prefix of exactly one entry of valid_classes becomes that entry.
PrefixOfValidNameCorrected ==
    (Cleaned /\ correct_partial_names) =>
        \A i \in 1..Len(Items(before)) :
            (LoneUnknownName(i) /\ Trimmed(ClassesBefore(i)) # <<>>
                 /\ Cardinality(LongerEntries(i)) = 1) =>
                /\ error = "none"
                /\ \A k \in LongerEntries(i) : ClassesAfter(i) = valid_classes[k]

\* C4, amended: with correction enabled, on a document whose classes strings
\* are each a lone unknown name with at most one entry of valid_classes as a
\* proper prefix, the call completes; a name with one such entry becomes that
\* entry, and a name with none (one that is itself a prefix of a valid name
\* included) is dropped, leaving the empty string.
NameWithValidPrefixCorrected ==
    (/\ Cleaned /\ correct_partial_names
     /\ \A i \in 1..Len(Items(before)) : HadClasses(i) =>
            LoneUnknownName(i) /\ Cardinality(ShorterEntries(i)) <= 1) =>
        /\ error = "none"
        /\ \A i \in 1..Len(Items(before)) : HadClasses(i) =>
               /\ \A k \in ShorterEntries(i) : ClassesAfter(i) = valid_classes[k]
               /\ ShorterEntries(i) = {} => ClassesAfter(i) = <<>>

\* "Aaa" against ["aa"] becomes "aa"
NameWithValidPrefixCorrectedWitness ==
    /\ Cleaned /\ correct_partial_names /\ error = "none"
    /\ valid_classes = <<<<"a", "a">>>>
    /\ Len(Items(before)) = 1 /\ LoneUnknownName(1)
    /\ ClassesBefore(1) = <<"A", "a", "a">>
    /\ ClassesAfter(1) = <<"a", "a">>

TwiceCleaned == pc = "lib" /\ calls = <<"clean_classes", "clean_classes">>

\* C5, as claimed: a second clean_classes with the same valid_classes and flag
\* completes and leaves the document as the first call left it.
CleanIdempotent ==
    TwiceCleaned => (error = "none" /\ data = before)

\* No entry of valid_classes ends in whitespace
NoTrailingBlank ==
    \A k \in 1..Len(valid_classes) :
        valid_classes[k] = <<>>
            \/ valid_classes[k][Len(valid_classes[k])] \notin Whitespace

\* C5, amended: when no entry of valid_classes ends in whitespace, a second
\* clean_classes with the same valid_classes and flag completes and leaves
\* the document as the first call left it.
CleanIdempotentNoTrailingBlank ==
    (TwiceCleaned /\ NoTrailingBlank) => (error = "none" /\ data = before)

\* "aa,a" against ["A", "aa"]: the first call gives "A, aa", the second
\* keeps it
CleanIdempotentWitness ==
    /\ TwiceCleaned /\ NoTrailingBlank /\ error = "none"
    /\ valid_classes = <<<<"A">>, <<"a", "a">>>>
    /\ Len(Items(data)) = 1
    /\ ClassesAfter(1) = <<"A", ",", " ", "a", "a">>

\* The lower-cased names record i should end with under first-prefix-wins
\* correction: the valid part names, and for each invalid part name with a
\* valid prefix the first entry of valid_classes (lower-cased) it starts with
FirstPrefixNames(i) ==
    LET vl == _lowercase_list(valid_classes)
        names == PartNames(ClassesBefore(i))
    IN  (names \cap ToSet(vl))
            \cup {vl[k] : k \in {k \in 1..Len(vl) :
                     \E c \in names \ ToSet(vl) :
                         /\ StartsWith(c, vl[k])
                         /\ \A j \in 1..(k - 1) : ~StartsWith(c, vl[j])}}

\* C10: with correction enabled, every invalid entry that starts with an entry
\* of valid_classes is replaced by the first such entry, and the others are
\* dropped.
FirstPrefixWins ==
    (Cleaned /\ correct_partial_names) =>
        \A i \in 1..Len(Items(before)) : HadClasses(i) =>
            /\ error = "none"
            /\ ClassesAfter(i) =
                   JoinSelected(valid_classes,
                       {k \in 1..Len(valid_classes) :
                           /\ Lower(valid_classes[k]) \in FirstPrefixNames(i)
                           /\ FirstOfItsName(valid_classes, k)}, 1)

(***************************************************************************)
(* The library specification: validate_data, patch_missing_fields and      *)
(* clean_classes called, up to MaxCalls times, on documents of every shape. *)
(***************************************************************************)
\* A record with every canonical field but those in missing
Without(missing) ==
    [dict |-> [k \in DOMAIN _default_data \ missing |-> _default_data[k]]]

\* The records drawn: complete ones (with defaults, with other values and
\* value types, with an extra field), incomplete ones, and values that are no
\* mapping
ShapeRecords ==
    {[dict |-> _default_data],
     [dict |-> [_default_data EXCEPT !["level"] = PyStr(<<"3">>),
                                     !["classes"] = PyStr(<<"a", "a", ",", "A">>),
                                     !["is_edit"] = None]],
     [dict |-> [k \in DOMAIN _default_data \cup {"homebrew"} |->
                   IF k = "homebrew" THEN PyBool(TRUE) ELSE _default_data[k]]],
     Without({"level"}),
     Without({"id", "sound"}),
     Spell(<<"a", ",", "A">>),
     [dict |-> [homebrew |-> PyInt(7), note |-> PyStr(<<"x">>)]],
     [dict |-> [k \in {} |-> None]],
     PyInt(5),
     [list |-> <<PyStr(<<"i", "d">>)>>],
     PyStr(<<"a", "b">>)}

ShapeCollections == UNION {[1..k -> ShapeRecords] : k \in 0..MaxRecords}

\* The values drawn for data[2] besides a mapping that holds a list under
\* "data": mappings without the key or with no list under it, lists and
\* strings with and without "data" in them, a number and null
OtherThirdElements ==
    {[dict |-> [count |-> PyInt(1)]],
     [dict |-> [data |-> PyInt(5)]],
     [dict |-> [data |-> PyStr(<<"a", "b">>)]],
     [list |-> <<PyInt(1)>>],
     [list |-> <<PyStr(<<"d", "a", "t", "a">>)>>],
     PyStr(<<"v">>),
     PyStr(<<"x", "d", "a", "t", "a">>),
     PyInt(5),
     None}

ShapeDocuments ==
    {Document(c) : c \in ShapeCollections}
        \cup {Document(<<Without({"level"})>>) \o <<PyInt(9)>>}
        \cup {<<PyStr(<<"v">>), PyInt(1), e>> : e \in OtherThirdElements}
        \cup {<<>>, <<PyStr(<<"v">>)>>, <<PyStr(<<"v">>), PyInt(1)>>}

CallValidateData ==
    /\ pc = "lib" /\ error = "none" /\ Len(calls) < MaxCalls
    /\ LET r == validate_data(data)
       IN  error' = r.error /\ message' = r.message
    /\ before' = data
    /\ calls' = Append(calls, "validate_data")
    /\ UNCHANGED <<data, valid_classes, correct_partial_names, pc, args, writes>>

CallPatchMissingFields ==
    /\ pc = "lib" /\ error = "none" /\ Len(calls) < MaxCalls
    /\ LET r == patch_missing_fields(data)
       IN  data' = r.data /\ error' = r.error
    /\ before' = data
    /\ calls' = Append(calls, "patch_missing_fields")
    /\ UNCHANGED <<valid_classes, correct_partial_names, message, pc, args,
                   writes>>

Init ==
    /\ data \in ShapeDocuments
    /\ valid_classes = <<<<"A">>, <<"a", "a">>>>
    /\ correct_partial_names \in BOOLEAN
    /\ error = "none" /\ message = NoMessage
    /\ before = data /\ calls = <<>>
    /\ pc = "lib" /\ args = NoArgs /\ writes = 0

Next == CallValidateData \/ CallPatchMissingFields \/ CallCleanClasses

Spec == Init /\ [][Next]_vars

(***************************************************************************)
(* What the properties of validate_data and patch_missing_fields speak of. *)
(***************************************************************************)
LastCall == calls[Len(calls)]

Validated == pc = "lib" /\ calls # <<>> /\ LastCall = "validate_data"
Patched == pc = "lib" /\ calls # <<>> /\ LastCall = "patch_missing_fields"

CanonicalFields == {keys[k] : k \in 1..Len(keys)}

\* Element 2 is not a mapping containing the key "data"
NoDataMapping(d) == ~(IsDict(d[3]) /\ "data" \in DOMAIN d[3].dict)

\* The record collection is a list
HasRecordList(d) ==
    Len(d) >= 3 /\ ~NoDataMapping(d) /\ IsList(d[3].dict["data"])

\* At least 3 elements, a mapping with a list under "data" at index 2, and
\* every record a mapping
StructurallyValid(d) ==
    HasRecordList(d) /\ \A i \in 1..Len(Items(d)) : IsDict(Items(d)[i])

\* One of the structural faults: too few elements, no mapping with "data" at
\* index 2, or a record that is no mapping
StructurallyInvalid(d) ==
    \/ Len(d) < 3
    \/ NoDataMapping(d)
    \/ HasRecordList(d) /\ \E i \in 1..Len(Items(d)) : ~IsDict(Items(d)[i])

Lacking(item) == CanonicalFields \ DOMAIN item.dict

\* C6: validate_data fails with InvalidDataError, and with no other error,
\* exactly when the document has fewer than 3 elements, or element 2 is not a
\* mapping containing "data", or some record lacks a canonical field, then
\* naming the first missing (record, field) pair; otherwise it returns; it
\* never changes the document. (Stated for the documents the claim covers:
\* those with one of the first two faults, or with a list of mappings.)
ValidateFailsExactlyOnBadShape ==
    (Validated /\ (Len(before) < 3 \/ NoDataMapping(before)
                       \/ StructurallyValid(before))) =>
        /\ data = before
        /\ IF Len(before) < 3 \/ NoDataMapping(before)
           THEN error = "InvalidDataError"
           ELSE IF \E i \in 1..Len(Items(before)) : Lacking(Items(before)[i]) # {}
           THEN LET i == CHOOSE i \in 1..Len(Items(before)) :
                             /\ Lacking(Items(before)[i]) # {}
                             /\ \A j \in 1..(i - 1) : Lacking(Items(before)[j]) = {}
                    k == CHOOSE k \in 1..Len(keys) :
                             /\ keys[k] \in Lacking(Items(before)[i])
                             /\ \A j \in 1..(k - 1) :
                                    keys[j] \notin Lacking(Items(before)[i])
                IN  /\ error = "InvalidDataError"
                    /\ message.key = keys[k]
                    /\ message.item = Items(before)[i]
           ELSE error = "none"

\* C7: on a structurally invalid document patch_missing_fields, and likewise
\* clean_classes, fails with InvalidDataError, the error of validate_data.
StructuralFaultIsInvalidData ==
    (/\ pc = "lib" /\ calls # <<>>
     /\ LastCall \in {"patch_missing_fields", "clean_classes"}
     /\ StructurallyInvalid(before)) =>
        error = "InvalidDataError"

\* C8: on a structurally valid document patch_missing_fields completes; the
\* record collection keeps its length and order; each record has the canonical
\* fields and its own as keys, its own values kept and the fields it lacked at
\* their defaults; elements 0 and 1, any further element and the sibling keys
\* of element 2 are unchanged; and a second patch changes nothing.
PatchFillsOnlyMissing ==
    /\ (Patched /\ StructurallyValid(before)) =>
           /\ error = "none"
           /\ Len(data) = Len(before)
           /\ \A j \in 1..Len(before) : j # 3 => data[j] = before[j]
           /\ IsDict(data[3]) /\ DOMAIN data[3].dict = DOMAIN before[3].dict
           /\ \A k \in DOMAIN before[3].dict :
                  k # "data" => data[3].dict[k] = before[3].dict[k]
           /\ IsList(data[3].dict["data"])
           /\ Len(Items(data)) = Len(Items(before))
           /\ \A i \in 1..Len(Items(before)) :
                  LET old == Items(before)[i].dict
                      new == Items(data)[i].dict
                  IN  /\ IsDict(Items(data)[i])
                      /\ DOMAIN new = CanonicalFields \cup DOMAIN old
                      /\ \A k \in DOMAIN old : new[k] = old[k]
                      /\ \A k \in CanonicalFields \ DOMAIN old :
                             new[k] = _default_data[k]
    /\ (Patched /\ Len(calls) >= 2
            /\ calls[Len(calls) - 1] = "patch_missing_fields") =>
           (error = "none" /\ data = before)

\* A record with only name and classes gains level = -1 and keeps its classes
PatchFillsOnlyMissingWitness ==
    /\ Patched /\ StructurallyValid(before) /\ error = "none"
    /\ calls = <<"patch_missing_fields">>
    /\ Len(Items(before)) >= 1
    /\ Items(before)[1] = Spell(<<"a", ",", "A">>)
    /\ Items(data)[1].dict["level"] = PyInt(-1)
    /\ Items(data)[1].dict["classes"] = PyStr(<<"a", ",", "A">>)

(***************************************************************************)
(* The command-line program, lines 155-190, one action per step.           *)
(* pc: "start" -> "load" -> "dispatch" -> "output" -> "done", or "raised"  *)
(* once an exception has ended the run. argparse admits only the three     *)
(* process types, so the NotImplementedError branch is never taken.        *)
(***************************************************************************)
\* if not os.path.isfile(args.input_data): raise Exception
CheckInput ==
    /\ pc = "start"
    /\ IF args.input_exists
       THEN pc' = "load" /\ error' = error
       ELSE pc' = "raised" /\ error' = "Exception"
    /\ UNCHANGED <<data, valid_classes, correct_partial_names, message, before,
                   calls, args, writes>>

\* data = json.loads(f.read())
LoadInput ==
    /\ pc = "load"
    /\ data' = args.file
    /\ pc' = "dispatch"
    /\ UNCHANGED <<valid_classes, correct_partial_names, error, message, before,
                   calls, args, writes>>

\* process_type == 'validate'
RunValidate ==
    /\ pc = "dispatch" /\ args.process_type = "validate"
    /\ LET r == validate_data(data)
       IN  /\ error' = r.error /\ message' = r.message
           /\ pc' = IF r.error = "none" THEN "output" ELSE "raised"
    /\ before' = data
    /\ calls' = Append(calls, "validate_data")
    /\ UNCHANGED <<data, valid_classes, correct_partial_names, args, writes>>

\* process_type == 'patch'
RunPatch ==
    /\ pc = "dispatch" /\ args.process_type = "patch"
    /\ LET r == patch_missing_fields(data)
       IN  /\ data' = r.data /\ error' = r.error
           /\ pc' = IF r.error = "none" THEN "output" ELSE "raised"
    /\ before' = data
    /\ calls' = Append(calls, "patch_missing_fields")
    /\ UNCHANGED <<valid_classes, correct_partial_names, message, args, writes>>

\* process_type == 'clean_classes': without --valid_classes an Exception is
\* raised and clean_classes is not called
RunCleanClasses ==
    /\ pc = "dispatch" /\ args.process_type = "clean_classes"
    /\ IF ~args.valid_classes_given
       THEN /\ error' = "Exception" /\ pc' = "raised"
            /\ UNCHANGED <<data, before, calls>>
       ELSE /\ \E r \in clean_classes(data, valid_classes, correct_partial_names) :
                   /\ data' = r.data /\ error' = r.error
                   /\ pc' = IF r.error = "none" THEN "output" ELSE "raised"
            /\ before' = data
            /\ calls' = Append(calls, "clean_classes")
    /\ UNCHANGED <<valid_classes, correct_partial_names, message, args, writes>>

\* The write made whether or not the operation raised, as in a finally block
WriteOutputAlways ==
    /\ pc \in {"output", "raised"}
    /\ writes' = IF args.output_data THEN writes + 1 ELSE writes
    /\ pc' = "done"
    /\ UNCHANGED <<data, valid_classes, correct_partial_names, error, message,
                   before, calls, args>>

\* if args.output_data: open(args.output_data, 'w') and write json.dumps(data)
WriteOutput ==
    /\ pc = "output"
    /\ writes' = IF args.output_data THEN writes + 1 ELSE writes
    /\ pc' = "done"
    /\ UNCHANGED <<data, valid_classes, correct_partial_names, error, message,
                   before, calls, args>>

\* The input files drawn: a complete record; a record lacking fields; two
\* records, the second with a name that has two valid prefixes; too few
\* elements; no "data" key
MainFiles ==
    {Document(<<[dict |-> _default_data]>>),
     Document(<<Spell(<<"a", ",", "A">>)>>),
     Document(<<Spell(<<"A", ",", "a">>), Spell(<<"a", "a", "a">>)>>),
     <<PyStr(<<"v">>), PyInt(1)>>,
     <<PyStr(<<"v">>), PyInt(1), [dict |-> [count |-> PyInt(1)]]>>}

MainInit ==
    /\ args \in [input_exists : BOOLEAN, output_data : BOOLEAN,
                 process_type : {"validate", "patch", "clean_classes"},
                 valid_classes_given : BOOLEAN, file : MainFiles]
    /\ valid_classes \in {<<<<"A">>>>, <<<<"a">>, <<"a", "a">>>>}
    /\ correct_partial_names \in BOOLEAN
    /\ data = <<>> /\ before = <<>> /\ calls = <<>>
    /\ error = "none" /\ message = NoMessage
    /\ pc = "start" /\ writes = 0

MainNext ==
    \/ CheckInput
    \/ LoadInput
    \/ RunValidate
    \/ RunPatch
    \/ RunCleanClasses
    \/ WriteOutput

MainSpec == MainInit /\ [][MainNext]_vars

\* C9: the output file is written at most once, only when --output_data is
\* given and only after the selected operation has completed without error;
\* a run ended by an exception (a missing input, a failed operation, a
\* missing --valid_classes) never opens it.
WriteOnlyAfterSuccess ==
    /\ writes <= 1
    /\ writes = 1 =>
           /\ args.output_data
           /\ error = "none"
           /\ pc = "done"
           /\ Len(calls) = 1
           /\ LastCall = CASE args.process_type = "validate" -> "validate_data"
                           [] args.process_type = "patch" -> "patch_missing_fields"
                           [] OTHER -> "clean_classes"
    /\ (pc = "raised" \/ error # "none" \/ ~args.output_data) => writes = 0

\* clean_classes changed the document and the result was then written
WriteOnlyAfterSuccessWitness ==
    /\ pc = "done" /\ writes = 1 /\ error = "none"
    /\ args.process_type = "clean_classes"
    /\ data # args.file

====
